---- MODULE Spec2Model ----
(***************************************************************************)
(* Model of pyorderbook's pure-Python matching engine                      *)
(* (src/pyorderbook/book.py, order.py, level.py, trade_blotter.py).        *)
(*                                                                         *)
(* Order objects are numbered in the order the caller constructs them; an  *)
(* order object is handed to the book (match / enqueue_order) at most      *)
(* once, right after its construction.  PriceLevel objects have their own  *)
(* identities, because the heap and the level map hold references to them. *)
(* Positions in Python lists are 0-based in the code and 1-based here.     *)
(* Prices are exact decimals in the code and integers here.                *)
(*                                                                         *)
(* The variables hold what persists between calls: the book and the Order  *)
(* objects.  What a call returns or raises is the value of the operator    *)
(* that models it (match, cancel, ...) on the current book; the actions    *)
(* commit the book that operator leaves behind.  A property of a call is   *)
(* stated for every reachable book and every argument of the call.         *)
(***************************************************************************)
EXTENDS Integers, Sequences, FiniteSets, TLC

\* ------------------------------------------------------------------ bounds
\* Orders constructed in one run; the inputs an order is built from.
MaxOrders == 3
Symbols == {"A"}
Prices == {1, 2}
Quantities == {1, 2}

\* ------------------------------------------------------------------- state
VARIABLES
    orders,      \* every Order object constructed so far, by number
    level_objs,  \* the live PriceLevel objects, by object identity
    levels,      \* Book.levels: symbol -> side -> heap (list of PriceLevel refs)
    level_map,   \* Book.level_map: symbol -> side -> price -> PriceLevel ref
    order_map,   \* Book.order_map: the ids it holds (each maps to its Order)
    traded,      \* history: per order, total fill_quantity of returned trades naming it
    cancelled    \* history: the orders a cancel call removed successfully

vars == <<orders, level_objs, levels, level_map, order_map, traded, cancelled>>

\* ------------------------------------------------------------ Side algebra
BID == "bid"
ASK == "ask"
Sides == {BID, ASK}

other(side) == IF side = ASK THEN BID ELSE ASK

Min(a, b) == IF a <= b THEN a ELSE b
Max(a, b) == IF a >= b THEN a ELSE b

\* variants: equal prices do not cross / every price crosses
price_comparator_strict(side, a, b) == IF side = ASK THEN a < b ELSE a > b
price_comparator_always(side, a, b) == TRUE

\* variant: an ask needs a strictly lower price, a bid does not
price_comparator_ask_strict(side, a, b) == IF side = ASK THEN a < b ELSE a >= b

price_comparator(side, a, b) == IF side = ASK THEN a <= b ELSE a >= b

\* variant: min and max swapped, the incoming price wins
calc_fill_price_swapped(side, a, b) == IF side = ASK THEN Min(a, b) ELSE Max(a, b)

calc_fill_price(side, a, b) == IF side = ASK THEN Max(a, b) ELSE Min(a, b)

\* Order.__init__ (quantity > 0 is the caller's guard in the actions below)
Order(side, symbol, price, quantity) ==
    [side |-> side, symbol |-> symbol, price |-> price,
     quantity |-> quantity, original_quantity |-> quantity]

\* OrderStatus
QUEUED == "queued"
PARTIAL_FILL == "partial_fill"
FILLED == "filled"

\* variant: a reduced quantity is not told apart from an untouched one
status_no_partial(ord) ==
    IF ord.quantity = 0 THEN FILLED ELSE QUEUED

\* Order.status
status(ord) ==
    IF ord.quantity = 0 THEN FILLED
    ELSE IF ord.quantity < ord.original_quantity THEN PARTIAL_FILL
    ELSE QUEUED

PriceLevel(side, price) == [side |-> side, price |-> price, orders |-> <<>>]

\* variant: the comparator of the other side, worst price on top
LevelLt_inverted(a, b) == price_comparator(other(a.side), a.price, b.price)

\* PriceLevel.__lt__
LevelLt(a, b) == price_comparator(a.side, a.price, b.price)

\* ------------------------------------------------------------------ errors
NoError == [type |-> "none", arg |-> 0]
KeyError(k) == [type |-> "KeyError", arg |-> k]
ValueError == [type |-> "ValueError", arg |-> 0]

\* ----------------------------------------------------------------- helpers
SeqToSet(s) == {s[i] : i \in 1..Len(s)}
Remove(s, x) == SelectSeq(s, LAMBDA y : y # x)
EmptySides == [bid |-> <<>>, ask |-> <<>>]

\* defaultdict.__getitem__: a missing key is created with the default value
Touch(d, symbol) == IF symbol \in DOMAIN d THEN d ELSE d @@ (symbol :> EmptySides)

\* dict.pop(key) on a function with a finite domain
DictPop(f, k) == [x \in DOMAIN f \ {k} |-> f[x]]

\* ------------------------------------------------------------- OrderQueue
\* variant: the new order goes to the head of the queue
append_order_front(q, id) == IF id \in SeqToSet(q) THEN q ELSE <<id>> \o q

append_order(q, id) == IF id \in SeqToSet(q) THEN q ELSE Append(q, id)
\* variant: the newest order instead of the oldest
peek_last(q) == q[Len(q)]

peek(q) == q[1]
\* variant: removal that moves the last entry into the freed slot
queue_pop_swap(q, id) ==
    LET i == CHOOSE k \in 1..Len(q) : q[k] = id
    IN  IF i = Len(q) THEN SubSeq(q, 1, Len(q) - 1)
        ELSE SubSeq([q EXCEPT ![i] = q[Len(q)]], 1, Len(q) - 1)

\* OrderQueue.pop(id), inherited from dict: the remaining entries keep their order
queue_pop(q, id) == Remove(q, id)
popleft(q) == queue_pop(q, peek(q))

\* ------------------------------------------------------------------- heapq
RECURSIVE siftdown(_, _, _, _, _)
siftdown(lo, heap, newitem, startpos, pos) ==
    IF pos > startpos
    THEN LET parentpos == (pos - 1) \div 2
             parent == heap[parentpos + 1]
         IN  IF LevelLt(lo[newitem], lo[parent])
             THEN siftdown(lo, [heap EXCEPT ![pos + 1] = parent], newitem, startpos, parentpos)
             ELSE [heap EXCEPT ![pos + 1] = newitem]
    ELSE [heap EXCEPT ![pos + 1] = newitem]

RECURSIVE siftup_loop(_, _, _, _, _)
siftup_loop(lo, heap, newitem, startpos, pos) ==
    LET endpos == Len(heap)
        left == 2 * pos + 1
    IN  IF left < endpos
        THEN LET rightpos == left + 1
                 childpos == IF rightpos < endpos
                                /\ ~LevelLt(lo[heap[left + 1]], lo[heap[rightpos + 1]])
                             THEN rightpos ELSE left
             IN  siftup_loop(lo, [heap EXCEPT ![pos + 1] = heap[childpos + 1]],
                             newitem, startpos, childpos)
        ELSE siftdown(lo, [heap EXCEPT ![pos + 1] = newitem], newitem, startpos, pos)

\* variant: the item is appended and the list is left as it is
heappush_append(lo, heap, item) == Append(heap, item)

heappush(lo, heap, item) ==
    siftdown(lo, Append(heap, item), item, 0, Len(heap))

\* variant: the last item of the list is dropped, the top stays
heappop_tail(lo, heap) == SubSeq(heap, 1, Len(heap) - 1)

\* heappop on a non-empty heap: the list left behind (the popped item is heap[1])
heappop(lo, heap) ==
    LET lastelt == heap[Len(heap)]
        rest == SubSeq(heap, 1, Len(heap) - 1)
    IN  IF rest = <<>> THEN rest
        ELSE siftup_loop(lo, [rest EXCEPT ![1] = lastelt], lastelt, 0, 0)

\* -------------------------------------------------------------------- Book
\* The book, the orders the caller holds, and the call in progress.
Book ==
    [orders |-> orders, level_objs |-> level_objs, levels |-> levels,
     level_map |-> level_map, order_map |-> order_map,
     trades |-> <<>>, error |-> NoError]

NewLevelRef(lo) == CHOOSE n \in 1..(Cardinality(DOMAIN lo) + 1) : n \notin DOMAIN lo

\* variant: the lookup creates the symbol's heaps as well
get_level_touch_levels(b, symbol) ==
    [b EXCEPT !.level_map = Touch(b.level_map, symbol),
              !.levels = Touch(b.levels, symbol)]

\* variant: a level with an empty queue counts as missing
get_level_live_only(b, symbol, side, price) ==
    LET m == Touch(b.level_map, symbol)[symbol][side]
    IN  IF price \in DOMAIN m /\ b.level_objs[m[price]].orders # <<>> THEN m[price] ELSE 0

\* Book.get_level: the level (or 0 for None) and the book, whose level_map
\* has been touched
get_level_touch(b, symbol) == [b EXCEPT !.level_map = Touch(b.level_map, symbol)]
\* variant: the price is looked up in the maps of every symbol
get_level_any_symbol(b, symbol, side, price) ==
    LET hits == {b.level_map[s][side][price] :
                    s \in {x \in DOMAIN b.level_map : price \in DOMAIN b.level_map[x][side]}}
    IN  IF hits = {} THEN 0 ELSE CHOOSE lv \in hits : TRUE

get_level(b, symbol, side, price) ==
    LET m == Touch(b.level_map, symbol)[symbol][side]
    IN  IF price \in DOMAIN m THEN m[price] ELSE 0

\* Book.get_order (0 for None)
get_order(om, id) == IF id \in om THEN id ELSE 0

\* Book.enqueue_order
enqueue_order(b, o) ==
    LET ord == b.orders[o]
        b1 == get_level_touch(b, ord.symbol)
        found == get_level(b, ord.symbol, ord.side, ord.price)
        lv == IF found = 0 THEN NewLevelRef(b1.level_objs) ELSE found
        b2 == IF found # 0 THEN b1
              ELSE LET lo == b1.level_objs @@ (lv :> PriceLevel(ord.side, ord.price))
                       hs == Touch(b1.levels, ord.symbol)
                   IN  [b1 EXCEPT
                          !.level_objs = lo,
                          !.levels = [hs EXCEPT ![ord.symbol][ord.side] =
                                         heappush(lo, hs[ord.symbol][ord.side], lv)],
                          !.level_map = [b1.level_map EXCEPT ![ord.symbol][ord.side] =
                                            @ @@ (ord.price :> lv)]]
    IN  [b2 EXCEPT !.level_objs[lv].orders = append_order(@, o),
                   !.order_map = @ \cup {o}]

\* variant: the standing order keeps its quantity
fill_incoming_only(b, I, S) ==
    LET inc == b.orders[I]
        std == b.orders[S]
        matched_quantity == Min(std.quantity, inc.quantity)
        fill_price == calc_fill_price(inc.side, inc.price, std.price)
        trade == [incoming_order_id |-> I, standing_order_id |-> S,
                  fill_quantity |-> matched_quantity, fill_price |-> fill_price]
    IN  [b EXCEPT !.orders[I].quantity = @ - matched_quantity,
                  !.trades = Append(@, trade)]

\* variant: a trade is for one unit
fill_one_unit(b, I, S) ==
    LET inc == b.orders[I]
        std == b.orders[S]
        matched_quantity == 1
        fill_price == calc_fill_price(inc.side, inc.price, std.price)
        trade == [incoming_order_id |-> I, standing_order_id |-> S,
                  fill_quantity |-> matched_quantity, fill_price |-> fill_price]
    IN  [b EXCEPT !.orders[S].quantity = @ - matched_quantity,
                  !.orders[I].quantity = @ - matched_quantity,
                  !.trades = Append(@, trade)]

\* variant: the larger of the two quantities is traded
fill_max(b, I, S) ==
    LET inc == b.orders[I]
        std == b.orders[S]
        matched_quantity == Max(std.quantity, inc.quantity)
        fill_price == calc_fill_price(inc.side, inc.price, std.price)
        trade == [incoming_order_id |-> I, standing_order_id |-> S,
                  fill_quantity |-> matched_quantity, fill_price |-> fill_price]
    IN  [b EXCEPT !.orders[S].quantity = @ - matched_quantity,
                  !.orders[I].quantity = @ - matched_quantity,
                  !.trades = Append(@, trade)]

\* Book.fill
fill(b, I, S) ==
    LET inc == b.orders[I]
        std == b.orders[S]
        matched_quantity == Min(std.quantity, inc.quantity)
        fill_price == calc_fill_price(inc.side, inc.price, std.price)
        trade == [incoming_order_id |-> I, standing_order_id |-> S,
                  fill_quantity |-> matched_quantity, fill_price |-> fill_price]
    IN  [b EXCEPT !.orders[S].quantity = @ - matched_quantity,
                  !.orders[I].quantity = @ - matched_quantity,
                  !.trades = Append(@, trade)]

\* variant: the inner loop makes one trade and returns to the outer loop
match_level_single_fill(b, I, lv) ==
    IF b.error # NoError \/ b.orders[I].quantity = 0 \/ b.level_objs[lv].orders = <<>>
    THEN b
    ELSE LET S == peek(b.level_objs[lv].orders)
             b1 == fill(b, I, S)
         IN  IF b1.orders[S].quantity # 0 THEN b1
             ELSE LET b3 == [b1 EXCEPT !.level_objs[lv].orders = popleft(@)]
                  IN  IF S \in b3.order_map
                      THEN [b3 EXCEPT !.order_map = @ \ {S}]
                      ELSE [b3 EXCEPT !.error = KeyError(S)]

\* variant: a standing order that is partly filled goes to the tail of its queue
RECURSIVE match_level_requeue_partial(_, _, _)
match_level_requeue_partial(b, I, lv) ==
    IF b.error # NoError \/ b.orders[I].quantity = 0 \/ b.level_objs[lv].orders = <<>>
    THEN b
    ELSE LET S == peek(b.level_objs[lv].orders)
             b1 == fill(b, I, S)
             b2 == IF b1.orders[S].quantity # 0
                   THEN [b1 EXCEPT !.level_objs[lv].orders = Append(popleft(@), S)]
                   ELSE LET b3 == [b1 EXCEPT !.level_objs[lv].orders = popleft(@)]
                        IN  IF S \in b3.order_map
                            THEN [b3 EXCEPT !.order_map = @ \ {S}]
                            ELSE [b3 EXCEPT !.error = KeyError(S)]
         IN  match_level_requeue_partial(b2, I, lv)

\* variant: a filled standing order leaves its queue but stays in order_map
RECURSIVE match_level_keep_filled(_, _, _)
match_level_keep_filled(b, I, lv) ==
    IF b.error # NoError \/ b.orders[I].quantity = 0 \/ b.level_objs[lv].orders = <<>>
    THEN b
    ELSE LET S == peek(b.level_objs[lv].orders)
             b1 == fill(b, I, S)
             b2 == IF b1.orders[S].quantity # 0 THEN b1
                   ELSE [b1 EXCEPT !.level_objs[lv].orders = popleft(@)]
         IN  match_level_keep_filled(b2, I, lv)

\* Book._match, lines 112-122: the inner loop over one level's queue
RECURSIVE match_level(_, _, _)
match_level(b, I, lv) ==
    IF b.error # NoError \/ b.orders[I].quantity = 0 \/ b.level_objs[lv].orders = <<>>
    THEN b
    ELSE LET S == peek(b.level_objs[lv].orders)
             b1 == fill(b, I, S)
             b2 == IF b1.orders[S].quantity # 0 THEN b1
                   ELSE LET b3 == [b1 EXCEPT !.level_objs[lv].orders = popleft(@)]
                        IN  IF S \in b3.order_map
                            THEN [b3 EXCEPT !.order_map = @ \ {S}]
                            ELSE [b3 EXCEPT !.error = KeyError(S)]
         IN  match_level(b2, I, lv)

\* variant: the flushed level leaves the heap but keeps its map entry
flush_level_heap_only(b, I, lv) ==
    LET symbol == b.orders[I].symbol
        level == b.level_objs[lv]
        hs == Touch(b.levels, symbol)
    IN  [b EXCEPT !.levels = [hs EXCEPT ![symbol][level.side] =
                                 heappop(b.level_objs, hs[symbol][level.side])]]

\* Book._match, lines 124-132: flush a level whose queue is empty
flush_level(b, I, lv) ==
    LET symbol == b.orders[I].symbol
        level == b.level_objs[lv]
        lm == Touch(b.level_map, symbol)
        hs == Touch(b.levels, symbol)
    IN  IF level.price \notin DOMAIN lm[symbol][level.side]
        THEN [b EXCEPT !.level_map = lm, !.error = KeyError(level.price)]
        ELSE [b EXCEPT
                !.level_map = [lm EXCEPT ![symbol][level.side] = DictPop(@, level.price)],
                !.levels = [hs EXCEPT ![symbol][level.side] =
                               heappop(b.level_objs, hs[symbol][level.side])]]

\* variant: the loop ends after the first level it trades with
match_loop_first_level(b, I) ==
    LET inc == b.orders[I]
        heap == b.levels[inc.symbol][other(inc.side)]
    IN  IF b.error # NoError \/ inc.quantity = 0 \/ heap = <<>> THEN b
        ELSE LET lv == heap[1]
             IN  IF ~price_comparator(inc.side, inc.price, b.level_objs[lv].price) THEN b
                 ELSE LET b1 == match_level(b, I, lv)
                      IN  IF b1.error # NoError THEN b1
                          ELSE IF b1.level_objs[lv].orders = <<>>
                               THEN flush_level(b1, I, lv)
                               ELSE b1

\* Book._match, lines 108-132: the outer loop over the opposing heap
RECURSIVE match_loop(_, _)
match_loop(b, I) ==
    LET inc == b.orders[I]
        heap == b.levels[inc.symbol][other(inc.side)]
    IN  IF b.error # NoError \/ inc.quantity = 0 \/ heap = <<>> THEN b
        ELSE LET lv == heap[1]
             IN  IF ~price_comparator(inc.side, inc.price, b.level_objs[lv].price) THEN b
                 ELSE LET b1 == match_level(b, I, lv)
                      IN  IF b1.error # NoError THEN b1
                          ELSE IF b1.level_objs[lv].orders = <<>>
                               THEN match_loop(flush_level(b1, I, lv), I)
                               ELSE match_loop(b1, I)

\* variant: the incoming order is enqueued whatever is left of it
match_always_enqueue(b, I) ==
    LET b1 == match_loop([b EXCEPT !.levels = Touch(b.levels, b.orders[I].symbol)], I)
    IN  IF b1.error # NoError THEN b1 ELSE enqueue_order(b1, I)

\* Book._match
match(b, I) ==
    LET b1 == match_loop([b EXCEPT !.levels = Touch(b.levels, b.orders[I].symbol)], I)
    IN  IF b1.error # NoError THEN b1
        ELSE IF b1.orders[I].quantity # 0 THEN enqueue_order(b1, I) ELSE b1

\* variant: the order leaves order_map but stays in its level's queue
cancel_map_only(b, o) ==
    IF o \notin b.order_map THEN [b EXCEPT !.error = KeyError(o)]
    ELSE get_level_touch([b EXCEPT !.order_map = @ \ {o}], b.orders[o].symbol)

\* variant: an unknown id is logged and the call returns normally
cancel_silent(b, o) ==
    LET ord == b.orders[o]
    IN  IF o \notin b.order_map THEN b
        ELSE LET b1 == get_level_touch([b EXCEPT !.order_map = @ \ {o}], ord.symbol)
                 lv == get_level(b1, ord.symbol, ord.side, ord.price)
             IN  IF lv = 0 THEN [b1 EXCEPT !.error = ValueError]
                 ELSE [b1 EXCEPT !.level_objs[lv].orders = Remove(@, o)]

\* variant: a level the cancel has emptied loses its level_map entry
cancel_drop_map_entry(b, o) ==
    LET ord == b.orders[o]
    IN  IF o \notin b.order_map THEN [b EXCEPT !.error = KeyError(o)]
        ELSE LET b1 == get_level_touch([b EXCEPT !.order_map = @ \ {o}], ord.symbol)
                 lv == get_level(b1, ord.symbol, ord.side, ord.price)
             IN  IF lv = 0 THEN [b1 EXCEPT !.error = ValueError]
                 ELSE IF o \notin SeqToSet(b1.level_objs[lv].orders)
                      THEN [b1 EXCEPT !.error = KeyError(o)]
                      ELSE LET b2 == [b1 EXCEPT !.level_objs[lv].orders = queue_pop(@, o)]
                           IN  IF b2.level_objs[lv].orders # <<>> THEN b2
                               ELSE [b2 EXCEPT !.level_map[ord.symbol][ord.side] =
                                                   DictPop(@, ord.price)]

\* variant: the level is looked up before the order map is consulted
cancel_lookup_first(b, o) ==
    LET ord == b.orders[o]
        b1 == get_level_touch(b, ord.symbol)
        lv == get_level(b1, ord.symbol, ord.side, ord.price)
    IN  IF o \notin b.order_map THEN [b1 EXCEPT !.error = KeyError(o)]
        ELSE IF lv = 0 THEN [b1 EXCEPT !.order_map = @ \ {o}, !.error = ValueError]
        ELSE IF o \notin SeqToSet(b1.level_objs[lv].orders)
             THEN [b1 EXCEPT !.order_map = @ \ {o}, !.error = KeyError(o)]
             ELSE [b1 EXCEPT !.order_map = @ \ {o},
                             !.level_objs[lv].orders = queue_pop(@, o)]

\* variant: a level the cancel has emptied leaves the heap and the level_map
cancel_evict_level(b, o) ==
    LET ord == b.orders[o]
    IN  IF o \notin b.order_map THEN [b EXCEPT !.error = KeyError(o)]
        ELSE LET b1 == get_level_touch([b EXCEPT !.order_map = @ \ {o}], ord.symbol)
                 lv == get_level(b1, ord.symbol, ord.side, ord.price)
             IN  IF lv = 0 THEN [b1 EXCEPT !.error = ValueError]
                 ELSE IF o \notin SeqToSet(b1.level_objs[lv].orders)
                      THEN [b1 EXCEPT !.error = KeyError(o)]
                      ELSE LET b2 == [b1 EXCEPT !.level_objs[lv].orders = queue_pop(@, o)]
                           IN  IF b2.level_objs[lv].orders # <<>> THEN b2
                               ELSE [b2 EXCEPT
                                       !.level_map[ord.symbol][ord.side] =
                                           DictPop(@, ord.price),
                                       !.levels[ord.symbol][ord.side] =
                                           SelectSeq(@, LAMBDA l : l # lv)]

\* Book.cancel
cancel(b, o) ==
    LET ord == b.orders[o]
    IN  IF o \notin b.order_map THEN [b EXCEPT !.error = KeyError(o)]
        ELSE LET b1 == get_level_touch([b EXCEPT !.order_map = @ \ {o}], ord.symbol)
                 lv == get_level(b1, ord.symbol, ord.side, ord.price)
             IN  IF lv = 0 THEN [b1 EXCEPT !.error = ValueError]
                 ELSE IF o \notin SeqToSet(b1.level_objs[lv].orders)
                      THEN [b1 EXCEPT !.error = KeyError(o)]
                      ELSE [b1 EXCEPT !.level_objs[lv].orders = queue_pop(@, o)]

\* PriceLevel objects nothing refers to any more are gone
Referenced(b) ==
    UNION {SeqToSet(b.levels[s][d]) : s \in DOMAIN b.levels, d \in Sides}
    \cup UNION {{b.level_map[s][d][p] : p \in DOMAIN b.level_map[s][d]} :
                   s \in DOMAIN b.level_map, d \in Sides}

Collect(b) == [b EXCEPT !.level_objs = [l \in DOMAIN @ \cap Referenced(b) |-> @[l]]]

\* total fill_quantity of the trades of ts that name order o
RECURSIVE FillsNaming(_, _)
FillsNaming(ts, o) ==
    IF ts = <<>> THEN 0
    ELSE (IF o \in {ts[1].incoming_order_id, ts[1].standing_order_id}
          THEN ts[1].fill_quantity ELSE 0) + FillsNaming(Tail(ts), o)

\* The call is over: b0 is the book it leaves, with the trades it made and the
\* error it raised (a call that raises returns no blotter).
Blotter(b) == IF b.error = NoError THEN b.trades ELSE <<>>

Commit(b0, op, id) ==
    LET b == Collect(b0)
    IN  /\ orders' = b.orders
        /\ level_objs' = b.level_objs
        /\ levels' = b.levels
        /\ level_map' = b.level_map
        /\ order_map' = b.order_map
        /\ traded' = [o \in DOMAIN b.orders |->
                         (IF o \in DOMAIN traded THEN traded[o] ELSE 0)
                         + FillsNaming(Blotter(b), o)]
        /\ cancelled' = IF op = "cancel" /\ b.error = NoError
                        THEN cancelled \cup {id} ELSE cancelled

\* ----------------------------------------------------------------- actions
\* The orders a caller can construct: bid(...) and ask(...)
NewOrders ==
    {Order(side, symbol, price, quantity) :
        side \in Sides, symbol \in Symbols, price \in Prices, quantity \in Quantities}

\* The caller constructs one more order; it is the next one in b.orders.
NewIdIn(b) == Len(b.orders) + 1
WithNewIn(b, ord) == [b EXCEPT !.orders = Append(@, ord), !.trades = <<>>, !.error = NoError]
NewId == NewIdIn(Book)
WithNew(ord) == WithNewIn(Book, ord)

Init ==
    /\ orders = <<>>
    /\ level_objs = <<>>
    /\ levels = <<>>
    /\ level_map = <<>>
    /\ order_map = {}
    /\ traded = <<>>
    /\ cancelled = {}

\* book.match(Order(side, symbol, price, quantity))
Match ==
    /\ NewId <= MaxOrders
    /\ \E ord \in NewOrders : Commit(match(WithNew(ord), NewId), "match", NewId)

\* book.enqueue_order(Order(side, symbol, price, quantity))
Enqueue ==
    /\ NewId <= MaxOrders
    /\ \E ord \in NewOrders : Commit(enqueue_order(WithNew(ord), NewId), "enqueue", NewId)

\* book.cancel(o) for an order handed to the book earlier
Cancel ==
    \E o \in 1..Len(orders) : Commit(cancel(Book, o), "cancel", o)

\* book.cancel(Order(...)) for an order the book has never seen; the caller
\* drops the order afterwards
CancelNew ==
    /\ NewId <= MaxOrders
    /\ \E ord \in NewOrders :
          LET b == Collect(cancel(WithNew(ord), NewId))
          IN  /\ level_objs' = b.level_objs
              /\ levels' = b.levels
              /\ level_map' = b.level_map
              /\ order_map' = b.order_map
              /\ UNCHANGED <<orders, traded, cancelled>>

Next == Match \/ Enqueue \/ Cancel \/ CancelNew

Spec == Init /\ [][Next]_vars

\* Orders enter the book through match only
NextMatch == Match \/ Cancel \/ CancelNew

SpecMatch == Init /\ [][NextMatch]_vars

\* ------------------------------------------------------- match on a list
\* The fields of a book that persist between calls
Persistent(b) == <<b.orders, b.level_objs, b.levels, b.level_map, b.order_map>>

\* A price p of the model stands for the Decimal p / PriceScale
PriceScale == 8

\* round(float(n / d), 2), counted in hundredths: the nearest hundredth, a
\* tie going to the even one
round2(n, d) ==
    LET h == (100 * n) \div d
        r == (100 * n) % d
    IN  IF 2 * r > d THEN h + 1
        ELSE IF 2 * r < d THEN h
        ELSE IF h % 2 = 0 THEN h ELSE h + 1

RECURSIVE SumCost(_)
SumCost(ts) ==
    IF ts = <<>> THEN 0 ELSE ts[1].fill_price * ts[1].fill_quantity + SumCost(Tail(ts))

RECURSIVE SumPrice(_)
SumPrice(ts) == IF ts = <<>> THEN 0 ELSE ts[1].fill_price + SumPrice(Tail(ts))

RECURSIVE SumTraded(_)
SumTraded(ts) == IF ts = <<>> THEN 0 ELSE ts[1].fill_quantity + SumTraded(Tail(ts))

\* TradeBlotter.__post_init__: total_cost, in hundredths
total_cost(ts) == IF ts = <<>> THEN 0 ELSE round2(SumCost(ts), PriceScale)

\* variant: the quantity-weighted average
average_price_weighted(ts) ==
    IF ts = <<>> THEN 0 ELSE round2(SumCost(ts), PriceScale * SumTraded(ts))

\* TradeBlotter.__post_init__: average_price, in hundredths
average_price(ts) ==
    IF ts = <<>> THEN 0 ELSE round2(SumPrice(ts), PriceScale * Len(ts))

\* TradeBlotter: the order and the trades of one _match call, and the two
\* statistics
TradeBlotter(b, I) ==
    [order |-> I, trades |-> b.trades,
     total_cost |-> total_cost(b.trades), average_price |-> average_price(b.trades)]

\* variant: the list is worked through from its last element
RECURSIVE match_list_reversed(_, _)
match_list_reversed(b, ids) ==
    IF ids = <<>> THEN [book |-> b, blotters |-> <<>>]
    ELSE LET I == ids[Len(ids)]
             b1 == Collect(match([b EXCEPT !.trades = <<>>], I))
         IN  IF b1.error # NoError THEN [book |-> b1, blotters |-> <<>>]
             ELSE LET r == match_list_reversed(b1, SubSeq(ids, 1, Len(ids) - 1))
                  IN  [book |-> r.book,
                       blotters |-> r.blotters \o <<TradeBlotter(b1, I)>>]

\* Book.match on a list of orders the caller has constructed: one _match call
\* per element, in list order; an exception ends the call without a result.
\* A PriceLevel a call has dropped is gone before the next call starts.
RECURSIVE match_list(_, _)
match_list(b, ids) ==
    IF ids = <<>> THEN [book |-> b, blotters |-> <<>>]
    ELSE LET b1 == Collect(match([b EXCEPT !.trades = <<>>], ids[1]))
         IN  IF b1.error # NoError THEN [book |-> b1, blotters |-> <<>>]
             ELSE LET r == match_list(b1, Tail(ids))
                  IN  [book |-> r.book,
                       blotters |-> <<TradeBlotter(b1, ids[1])>> \o r.blotters]

\* all trades of a list of blotters, in order
RECURSIVE AllTrades(_)
AllTrades(bs) == IF bs = <<>> THEN <<>> ELSE bs[1].trades \o AllTrades(Tail(bs))

\* The caller constructs the orders of os, in order
RECURSIVE WithAllNewIn(_, _)
WithAllNewIn(b, os) ==
    IF os = <<>> THEN b ELSE WithAllNewIn(WithNewIn(b, os[1]), Tail(os))

\* The lists of two orders a caller can construct
OrderLists == {<<o1, o2>> : o1 \in NewOrders, o2 \in NewOrders}

\* book.match([Order(...), Order(...)])
MatchList ==
    /\ NewId + 1 <= MaxOrders
    /\ \E os \in OrderLists :
          LET r == match_list(WithAllNewIn(Book, os), <<NewId, NewId + 1>>)
          IN  Commit([r.book EXCEPT !.trades = AllTrades(r.blotters)], "match", NewId)

NextList == Next \/ MatchList

SpecList == Init /\ [][NextList]_vars

\* ---------------------------------------------------------------- snapshot
\* An Optional: None, or a present value
None == <<>>
Some(v) == <<v>>

\* The Decimal a division returns, kept as the exact fraction num / den
Frac(n, d) == [num |-> n, den |-> d]

SnapshotLevel(price, quantity) == [price |-> price, quantity |-> quantity]

Snapshot(bids, asks, spread, midpoint, bid_vwap, ask_vwap) ==
    [bids |-> bids, asks |-> asks, spread |-> spread, midpoint |-> midpoint,
     bid_vwap |-> bid_vwap, ask_vwap |-> ask_vwap]

\* The depth a caller leaves out, and the depths a caller passes
DefaultDepth == 5
Depths == {-1, 0, 1, 2, DefaultDepth}

RECURSIVE SumOriginal(_, _)
SumOriginal(b, q) ==
    IF q = <<>> THEN 0 ELSE b.orders[q[1]].original_quantity + SumOriginal(b, Tail(q))

\* variant: the quantities the orders were created with
level_quantity_original(b, lv) == SumOriginal(b, b.level_objs[lv].orders)

RECURSIVE SumQuantity(_, _)
SumQuantity(b, q) ==
    IF q = <<>> THEN 0 ELSE b.orders[q[1]].quantity + SumQuantity(b, Tail(q))

\* sum(order.quantity for order in lvl.orders.values())
level_quantity(b, lv) == SumQuantity(b, b.level_objs[lv].orders)

\* variant: every level of the heap is emitted, whatever the depth
snapshot_range_all(depth, heap) == Len(heap)

\* range(min(depth, len(heap))) after depth = max(0, depth): the number of pops
snapshot_range(depth, heap) == Min(Max(0, depth), Len(heap))

\* Book.snapshot, lines 228-231 and 236-239: n pops from a copy of a heap;
\* what is left of the copy, and the SnapshotLevels emitted
RECURSIVE snapshot_side(_, _, _, _)
snapshot_side(b, heap, n, out) ==
    IF n = 0 THEN [heap |-> heap, out |-> out]
    ELSE LET lvl == heap[1]
         IN  snapshot_side(b, heappop(b.level_objs, heap), n - 1,
                           Append(out, SnapshotLevel(b.level_objs[lvl].price,
                                                     level_quantity(b, lvl))))

RECURSIVE total_pq(_)
total_pq(ls) ==
    IF ls = <<>> THEN 0 ELSE ls[1].price * ls[1].quantity + total_pq(Tail(ls))

RECURSIVE total_q(_)
total_q(ls) == IF ls = <<>> THEN 0 ELSE ls[1].quantity + total_q(Tail(ls))

\* Book._compute_vwap
compute_vwap(ls) ==
    IF total_q(ls) = 0 THEN None ELSE Some(Frac(total_pq(ls), total_q(ls)))

\* Book.snapshot: the value returned
snapshot_value(b, symbol, depth) ==
    IF symbol \notin DOMAIN b.levels THEN None
    ELSE LET bid_heap == b.levels[symbol][BID]
             ask_heap == b.levels[symbol][ASK]
             bid_levels == snapshot_side(b, bid_heap, snapshot_range(depth, bid_heap), <<>>).out
             ask_levels == snapshot_side(b, ask_heap, snapshot_range(depth, ask_heap), <<>>).out
             best_bid == IF bid_levels # <<>> THEN Some(bid_levels[1].price) ELSE None
             best_ask == IF ask_levels # <<>> THEN Some(ask_levels[1].price) ELSE None
             both == best_bid # None /\ best_ask # None
             spread == IF both THEN Some(best_ask[1] - best_bid[1]) ELSE None
             midpoint == IF both THEN Some(Frac(best_ask[1] + best_bid[1], 2)) ELSE None
         IN  Some(Snapshot(bid_levels, ask_levels, spread, midpoint,
                           compute_vwap(bid_levels), compute_vwap(ask_levels)))

\* variant: the levels are popped from the live heaps
snapshot_live_heap(b, symbol, depth) ==
    IF symbol \notin DOMAIN b.levels THEN [book |-> b, value |-> None]
    ELSE LET bid_heap == b.levels[symbol][BID]
             ask_heap == b.levels[symbol][ASK]
             bid == snapshot_side(b, bid_heap, snapshot_range(depth, bid_heap), <<>>)
             ask == snapshot_side(b, ask_heap, snapshot_range(depth, ask_heap), <<>>)
         IN  [book |-> [b EXCEPT !.levels[symbol] = [bid |-> bid.heap, ask |-> ask.heap]],
              value |-> snapshot_value(b, symbol, depth)]

\* Book.snapshot: the book it leaves (the pops are made on copies of the
\* heaps) and the value returned
snapshot(b, symbol, depth) == [book |-> b, value |-> snapshot_value(b, symbol, depth)]

\* A call that returns a value: the book it leaves
Keep(b) ==
    /\ orders' = b.orders
    /\ level_objs' = b.level_objs
    /\ levels' = b.levels
    /\ level_map' = b.level_map
    /\ order_map' = b.order_map
    /\ UNCHANGED <<traded, cancelled>>

\* book.snapshot(s, d)
SnapshotOf(S) ==
    \E s \in S, d \in Depths :
        LET r == snapshot(Book, s, d)
        IN  /\ r.value = None <=> s \notin DOMAIN levels
            /\ Keep(r.book)

\* book.get_level(s, side, price)
GetLevelOf(S) ==
    \E s \in S, side \in Sides, price \in Prices :
        /\ get_level(Book, s, side, price) \in {0} \cup DOMAIN level_objs
        /\ Keep(get_level_touch(Book, s))

\* book.get_order(id), for the id of any order constructed so far
GetOrder ==
    \E o \in 1..Len(orders) :
        /\ get_order(order_map, o) \in {0, o}
        /\ UNCHANGED vars

NextSnap == Next \/ SnapshotOf(Symbols) \/ GetLevelOf(Symbols) \/ GetOrder

SpecSnap == Init /\ [][NextSnap]_vars

\* ------------------------------------------------------------ three prices
\* The same calls with unit orders at three prices, so that a heap can hold
\* three levels
PricesWide == {1, 2, 3}

NewOrdersWide ==
    {Order(side, symbol, price, 1) : side \in Sides, symbol \in Symbols, price \in PricesWide}

MatchWide ==
    /\ NewId <= MaxOrders
    /\ \E ord \in NewOrdersWide : Commit(match(WithNew(ord), NewId), "match", NewId)

EnqueueWide ==
    /\ NewId <= MaxOrders
    /\ \E ord \in NewOrdersWide :
          Commit(enqueue_order(WithNew(ord), NewId), "enqueue", NewId)

NextWide == MatchWide \/ EnqueueWide \/ Cancel \/ SnapshotOf(Symbols)

SpecWide == Init /\ [][NextWide]_vars

\* ------------------------------------------------------------ two symbols
\* The same calls on a book that serves two symbols
MaxOrdersMulti == 2
SymbolsMulti == {"A", "B"}

NewOrdersMulti ==
    {Order(side, symbol, price, quantity) :
        side \in Sides, symbol \in SymbolsMulti, price \in Prices, quantity \in Quantities}

MatchMulti ==
    /\ NewId <= MaxOrdersMulti
    /\ \E ord \in NewOrdersMulti : Commit(match(WithNew(ord), NewId), "match", NewId)

EnqueueMulti ==
    /\ NewId <= MaxOrdersMulti
    /\ \E ord \in NewOrdersMulti :
          Commit(enqueue_order(WithNew(ord), NewId), "enqueue", NewId)

CancelNewMulti ==
    /\ NewId <= MaxOrdersMulti
    /\ \E ord \in NewOrdersMulti :
          LET b == Collect(cancel(WithNew(ord), NewId))
          IN  /\ level_objs' = b.level_objs
              /\ levels' = b.levels
              /\ level_map' = b.level_map
              /\ order_map' = b.order_map
              /\ UNCHANGED <<orders, traded, cancelled>>

NextMulti ==
    \/ MatchMulti \/ EnqueueMulti \/ Cancel \/ CancelNewMulti
    \/ SnapshotOf(SymbolsMulti) \/ GetLevelOf(SymbolsMulti) \/ GetOrder

SpecMulti == Init /\ [][NextMulti]_vars

\* ------------------------------------------------------ reading the results
\* Book.match(ord) / Book.enqueue_order(ord) called on book b0 with a freshly
\* constructed order ord: the book the call leaves, with the trades it made.
MatchOn(b0, ord) == match(WithNewIn(b0, ord), NewIdIn(b0))
MatchNew(ord) == MatchOn(Book, ord)

\* The orders found in the queues of the levels a heap holds
InBook(b, o) ==
    \E s \in DOMAIN b.levels, d \in Sides :
        \E i \in 1..Len(b.levels[s][d]) :
            o \in SeqToSet(b.level_objs[b.levels[s][d][i]].orders)

\* p is a strictly better price than q for an order resting on side
Better(side, p, q) == IF side = BID THEN p > q ELSE p < q

RECURSIVE SumFill(_)
SumFill(ts) == IF ts = <<>> THEN 0 ELSE ts[1].fill_quantity + SumFill(Tail(ts))

\* what is left of resting order o just before the k-th trade of ts is made
RemainingBefore(b0, ts, k, o) ==
    b0.orders[o].quantity - FillsNaming(SubSeq(ts, 1, k - 1), o)

SameLevel(x, y) == x.symbol = y.symbol /\ x.side = y.side /\ x.price = y.price

\* ---------------------------------------------------------------------- C1
PricePriorityOn(b0, ord) ==
    LET ts == MatchOn(b0, ord).trades
        rest == other(ord.side)
        px(t) == b0.orders[t.standing_order_id].price
    IN  /\ \A i, j \in 1..Len(ts) : i < j => ~Better(rest, px(ts[j]), px(ts[i]))
        /\ \A k \in 1..Len(ts) : \A o \in b0.order_map :
              (/\ b0.orders[o].symbol = ord.symbol
               /\ b0.orders[o].side = rest
               /\ Better(rest, b0.orders[o].price, px(ts[k])))
              => RemainingBefore(b0, ts, k, o) = 0

\* C1: price priority. In every reachable book and for every incoming order,
\* the resting prices along the trade list of match never get better, and
\* when a trade is made every resting order of the same symbol and side at a
\* strictly better price has already been filled completely.
C1_PricePriority == \A ord \in NewOrders : PricePriorityOn(Book, ord)

\* an aggressor sweeps two levels at different prices
C1_Witness ==
    \E ord \in NewOrders :
        LET ts == MatchNew(ord).trades
        IN  /\ Len(ts) >= 2
            /\ orders[ts[1].standing_order_id].price # orders[ts[2].standing_order_id].price

\* ---------------------------------------------------------------------- C2
\* Orders are handed to the book in the order of their numbers, so S1 < S2
\* says S1 was placed before S2.
FifoOn(b0, ord) ==
    LET ts == MatchOn(b0, ord).trades
    IN  \A k \in 1..Len(ts) : \A S1 \in b0.order_map :
            (/\ S1 < ts[k].standing_order_id
             /\ SameLevel(b0.orders[S1], b0.orders[ts[k].standing_order_id]))
            => RemainingBefore(b0, ts, k, S1) = 0

\* C2: FIFO at a level. In every reachable book and for every incoming order,
\* a resting order receives a trade only when every order placed earlier at
\* the same (symbol, side, price) and still in the book has been filled
\* completely.
C2_Fifo == \A ord \in NewOrders : FifoOn(Book, ord)

\* an aggressor fills the older of two orders of a level and then the younger
C2_Witness ==
    \E ord \in NewOrders :
        LET ts == MatchNew(ord).trades
        IN  /\ Len(ts) >= 2
            /\ ts[1].standing_order_id < ts[2].standing_order_id
            /\ SameLevel(orders[ts[1].standing_order_id], orders[ts[2].standing_order_id])

\* ---------------------------------------------------------------------- C3
\* the queue of every level after cancel(o) is the queue before it without o
CancelKeepsOrder(b0, o) ==
    LET b1 == cancel(b0, o)
    IN  /\ DOMAIN b1.level_objs = DOMAIN b0.level_objs
        /\ \A lv \in DOMAIN b0.level_objs :
              b1.level_objs[lv].orders = Remove(b0.level_objs[lv].orders, o)

\* C3: cancel preserves FIFO. In every reachable book, cancelling a resting
\* order leaves every queue as it was with that order taken out, and any
\* aggressor matched next fills the survivors of each level in placement order.
C3_CancelPreservesFifo ==
    \A o \in order_map :
        /\ CancelKeepsOrder(Book, o)
        /\ \A ord \in NewOrders : FifoOn(cancel(Book, o), ord)

\* three orders rest at one level, the middle one is cancelled, and the next
\* aggressor trades with the first and then with the third
C3_Witness ==
    \E o \in order_map : \E ord \in NewOrders :
        LET b1 == cancel(Book, o)
            ts == MatchOn(b1, ord).trades
        IN  /\ b1.error = NoError
            /\ Len(ts) = 2
            /\ ts[1].standing_order_id < o /\ o < ts[2].standing_order_id
            /\ SameLevel(orders[ts[1].standing_order_id], orders[o])
            /\ SameLevel(orders[ts[2].standing_order_id], orders[o])

C5_Conservation ==
    /\ \A ord \in NewOrders :
          LET b == MatchNew(ord)
              I == b.orders[NewId]
          IN  SumFill(Blotter(b)) + I.quantity = I.original_quantity
    /\ \A o \in DOMAIN orders :
          traded[o] = orders[o].original_quantity - orders[o].quantity

\* a partly filled order rests, and an aggressor is partly filled against it
C5_Witness ==
    /\ \E o \in order_map : traded[o] >= 1
    /\ \E ord \in NewOrders :
          LET b == MatchNew(ord)
          IN  b.trades # <<>> /\ b.orders[NewId].quantity >= 1

\* ---------------------------------------------------------------------- C6
\* C6: uncrossed book. When orders enter through match only, every level of a
\* symbol's bid heap has a price strictly below every level of its ask heap,
\* so the best bid is strictly below the best ask.
C6_Uncrossed ==
    \A s \in DOMAIN levels :
        \A i \in 1..Len(levels[s][BID]), j \in 1..Len(levels[s][ASK]) :
            level_objs[levels[s][BID][i]].price < level_objs[levels[s][ASK][j]].price

\* both sides hold resting orders after a trade has been made
C6_Witness ==
    /\ \E s \in DOMAIN levels : levels[s][BID] # <<>> /\ levels[s][ASK] # <<>>
    /\ \E o \in order_map : orders[o].side = BID
    /\ \E o \in order_map : orders[o].side = ASK
    /\ \E o \in DOMAIN orders : traded[o] >= 1

\* ---------------------------------------------------------------------- C7
Crosses(ord, S) ==
    IF ord.side = BID THEN ord.price >= S.price ELSE ord.price <= S.price

\* C7: no trade-through. Every trade of match names a resting order of the
\* incoming order's symbol and of the opposite side whose price the incoming
\* limit crosses; and an incoming order makes a trade whenever an order of
\* the opposite side rests at exactly its price.
C7_NoTradeThrough ==
    \A ord \in NewOrders :
        LET ts == MatchNew(ord).trades
        IN  /\ \A k \in 1..Len(ts) :
                  LET S == ts[k].standing_order_id
                  IN  /\ S \in order_map
                      /\ orders[S].symbol = ord.symbol
                      /\ orders[S].side = other(ord.side)
                      /\ Crosses(ord, orders[S])
            /\ (\E S \in order_map :
                   /\ orders[S].symbol = ord.symbol
                   /\ orders[S].side = other(ord.side)
                   /\ orders[S].price = ord.price)
               => ts # <<>>

EqualPriceTrade(side) ==
    \E ord \in NewOrders :
        LET ts == MatchNew(ord).trades
        IN  /\ ord.side = side
            /\ \E k \in 1..Len(ts) : orders[ts[k].standing_order_id].price = ord.price

\* a bid would trade at exactly its price and so would an ask
C7_Witness == EqualPriceTrade(BID) /\ EqualPriceTrade(ASK)

\* ---------------------------------------------------------------------- C8
\* C8: cancel removes a resting order. Once cancel(o) has succeeded,
\* get_order(o.id) is absent and no match names o as the standing order.
C8_CancelRemoves ==
    /\ \A o \in cancelled : get_order(order_map, o) = 0
    /\ \A ord \in NewOrders :
          LET ts == MatchNew(ord).trades
          IN  \A k \in 1..Len(ts) : ts[k].standing_order_id \notin cancelled

\* an order was cancelled and an aggressor arrives that crosses its price
C8_Witness ==
    \E o \in cancelled : \E ord \in NewOrders :
        /\ ord.symbol = orders[o].symbol
        /\ ord.side = other(orders[o].side)
        /\ Crosses(ord, orders[o])
        /\ MatchNew(ord).trades = <<>>

QueuesHolding(b, o) == {lv \in DOMAIN b.level_objs : o \in SeqToSet(b.level_objs[lv].orders)}

RestsLast(b, o) ==
    LET ord == b.orders[o]
        lv == get_level(b, ord.symbol, ord.side, ord.price)
    IN  /\ get_order(b.order_map, o) = o
        /\ lv # 0
        /\ b.level_objs[lv].orders # <<>>
        /\ b.level_objs[lv].orders[Len(b.level_objs[lv].orders)] = o

\* C10: residual handling. When match returns, the incoming order is in the
\* order map and last in the queue of its own level if and only if some of
\* its quantity is left; a filled incoming order is in no container.
C10_Residual ==
    \A ord \in NewOrders :
        LET b == MatchNew(ord)
        IN  /\ RestsLast(b, NewId) <=> b.orders[NewId].quantity > 0
            /\ b.orders[NewId].quantity = 0 =>
                  NewId \notin b.order_map /\ QueuesHolding(b, NewId) = {}

\* one aggressor is filled completely, another is left resting behind an
\* older order of its level after a partial fill
C10_Witness ==
    /\ \E ord \in NewOrders : MatchNew(ord).orders[NewId].quantity = 0
    /\ \E ord \in NewOrders :
          LET b == MatchNew(ord)
          IN  /\ b.trades # <<>>
              /\ b.orders[NewId].quantity > 0
              /\ Len(b.level_objs[get_level(b, ord.symbol, ord.side, ord.price)].orders) >= 2

\* --------------------------------------------------------------------- C11
\* C11: order status after matching. For the order of the blotter match
\* returns, status is FILLED exactly when its quantity is 0, PARTIAL_FILL
\* exactly when 0 < quantity < original_quantity, which is when the call made
\* at least one trade and left a residual, and QUEUED exactly when quantity
\* equals original_quantity, which is when the call made no trade.
C11_StatusAfterMatch ==
    \A ord \in NewOrders :
        LET b == MatchNew(ord)
            I == b.orders[NewId]
            st == status(I)
        IN  /\ st \in {FILLED, PARTIAL_FILL, QUEUED}
            /\ st = FILLED <=> I.quantity = 0
            /\ st = PARTIAL_FILL <=> (0 < I.quantity /\ I.quantity < I.original_quantity)
            /\ st = PARTIAL_FILL <=> (b.trades # <<>> /\ I.quantity > 0)
            /\ st = QUEUED <=> I.quantity = I.original_quantity
            /\ st = QUEUED <=> b.trades = <<>>

\* from one book, three incoming orders end in the three statuses
C11_Witness ==
    /\ \E ord \in NewOrders : status(MatchNew(ord).orders[NewId]) = FILLED
    /\ \E ord \in NewOrders : status(MatchNew(ord).orders[NewId]) = PARTIAL_FILL
    /\ \E ord \in NewOrders : status(MatchNew(ord).orders[NewId]) = QUEUED

\* --------------------------------------------------------------------- C12
\* the PriceLevel objects the heaps and the maps of symbol s refer to
LevelsOf(b, s) ==
    (IF s \in DOMAIN b.levels
     THEN UNION {SeqToSet(b.levels[s][d]) : d \in Sides} ELSE {})
    \cup (IF s \in DOMAIN b.level_map
          THEN UNION {{b.level_map[s][d][p] : p \in DOMAIN b.level_map[s][d]} : d \in Sides}
          ELSE {})

\* everything the book holds for symbol s
SymbolView(b, s) ==
    [heaps |-> IF s \in DOMAIN b.levels THEN <<b.levels[s]>> ELSE <<>>,
     maps |-> IF s \in DOMAIN b.level_map THEN <<b.level_map[s]>> ELSE <<>>,
     queues |-> [lv \in LevelsOf(b, s) |-> b.level_objs[lv]],
     held |-> {o \in b.order_map : b.orders[o].symbol = s},
     quantities |-> [o \in {x \in DOMAIN b.orders : b.orders[x].symbol = s} |->
                       b.orders[o].quantity]]

\* a call on an order of symbol s turned book b0 into b
IsolatedOn(b0, b, s) ==
    /\ \A i \in 1..Len(b.trades) :
           /\ b.orders[b.trades[i].standing_order_id].symbol = s
           /\ b.orders[b.trades[i].incoming_order_id].symbol = s
    /\ \A s2 \in SymbolsMulti \ {s} : SymbolView(b, s2) = SymbolView(b0, s2)

\* C12: multi-symbol isolation. match, enqueue_order and cancel on an order
\* of symbol s emit no trade against an order of another symbol and leave the
\* heaps, level maps, queues and order quantities of every other symbol
\* unchanged.
C12_SymbolIsolation ==
    /\ \A ord \in NewOrdersMulti :
           LET b0 == WithNew(ord)
               m == match(b0, NewId)
               e == enqueue_order(b0, NewId)
           IN  IsolatedOn(b0, m, ord.symbol) /\ IsolatedOn(b0, e, ord.symbol)
    /\ \A o \in 1..Len(orders) :
           IsolatedOn(Book, cancel(Book, o), orders[o].symbol)

\* an incoming order trades in its own symbol while an order of the other
\* symbol rests on the opposite side at a price it crosses
C12_Witness ==
    \E ord \in NewOrdersMulti :
        LET m == MatchNew(ord)
        IN  /\ m.trades # <<>>
            /\ \E o \in order_map :
                   /\ orders[o].symbol # ord.symbol
                   /\ orders[o].side = other(ord.side)
                   /\ price_comparator(ord.side, ord.price, orders[o].price)
                   /\ InBook(Book, o)

\* --------------------------------------------------------------------- C13
\* match(o1), match(o2), ... called one after another, each order constructed
\* right before its call; a call that raises ends the sequence
RECURSIVE Sequential(_, _)
Sequential(b, os) ==
    IF os = <<>> THEN [book |-> b, blotters |-> <<>>]
    ELSE LET I == NewIdIn(b)
             b1 == Collect(MatchOn(b, os[1]))
         IN  IF b1.error # NoError THEN [book |-> b1, blotters |-> <<>>]
             ELSE LET r == Sequential(b1, Tail(os))
                  IN  [book |-> r.book, blotters |-> <<TradeBlotter(b1, I)>> \o r.blotters]

\* C13: matching a list is sequential application. On every book with room
\* for two more orders, match([o1, o2]) returns the same blotters (the same
\* trades in the same order) and leaves the same book as match(o1) followed
\* by match(o2) on the same starting book.
C13_ListIsSequential ==
    NewId + 1 <= MaxOrders =>
        \A os \in OrderLists :
            LET l == match_list(WithAllNewIn(Book, os), <<NewId, NewId + 1>>)
                q == Sequential(Book, os)
            IN  /\ l.blotters = q.blotters
                /\ l.book.error = q.book.error
                /\ l.book.error = NoError => Persistent(l.book) = Persistent(q.book)

\* a list whose two orders both trade, the second one differently from what
\* it would have traded on the starting book
C13_Witness ==
    /\ NewId + 1 <= MaxOrders
    /\ \E os \in OrderLists :
          LET l == match_list(WithAllNewIn(Book, os), <<NewId, NewId + 1>>)
          IN  /\ Len(l.blotters) = 2
              /\ l.blotters[1].trades # <<>>
              /\ l.blotters[2].trades # <<>>
              /\ Len(l.blotters[2].trades) # Len(MatchOn(Book, os[2]).trades)

LivePrices(b, s, side) ==
    {b.level_objs[lv].price :
        lv \in {l \in SeqToSet(b.levels[s][side]) : b.level_objs[l].orders # <<>>}}

\* the n best prices of P for a side, best first
RECURSIVE BestFirst(_, _, _)
BestFirst(side, P, n) ==
    IF n = 0 \/ P = {} THEN <<>>
    ELSE LET best == CHOOSE p \in P : \A q \in P : p = q \/ Better(side, p, q)
         IN  <<best>> \o BestFirst(side, P \ {best}, n - 1)

\* the levels a snapshot lists for a side
Emitted(snap, side) == IF side = BID THEN snap.bids ELSE snap.asks

\* C15: snapshot emits only non-stale levels. For each side, snapshot(s, d)
\* lists exactly the min(d, number of levels holding a resting order) best
\* levels that hold resting orders: a level a cancel has emptied is not
\* listed (no listed level has quantity 0) and takes none of the d places.
C15_OnlyNonStaleLevels ==
    \A s \in Symbols, d \in Depths :
        LET v == snapshot(Book, s, d).value
        IN  v # None =>
                \A side \in Sides :
                    LET out == Emitted(v[1], side)
                        live == LivePrices(Book, s, side)
                    IN  /\ [i \in 1..Len(out) |-> out[i].price]
                              = BestFirst(side, live, Min(Max(d, 0), Cardinality(live)))
                        /\ \A i \in 1..Len(out) : out[i].quantity # 0

\* --------------------------------------------------------------------- C16
\* the prices of the levels a heap holds
HeapPrices(b, s, side) == {b.level_objs[lv].price : lv \in SeqToSet(b.levels[s][side])}

\* C16: snapshot ordering and depth. In every snapshot the bids are listed in
\* strictly decreasing price and the asks in strictly increasing price, each
\* side has at most max(depth, 0) entries (so a depth <= 0 gives two empty
\* sides), and a depth that is not below the number of levels of a side
\* returns all of them.
C16_SnapshotOrderAndDepth ==
    \A s \in Symbols, d \in Depths :
        LET v == snapshot(Book, s, d).value
        IN  v # None =>
                \A side \in Sides :
                    LET out == Emitted(v[1], side)
                        heap == levels[s][side]
                    IN  /\ \A i \in 1..(Len(out) - 1) :
                               Better(side, out[i].price, out[i + 1].price)
                        /\ Len(out) <= Max(d, 0)
                        /\ d <= 0 => out = <<>>
                        /\ d >= Len(heap) =>
                               /\ Len(out) = Len(heap)
                               /\ {out[i].price : i \in 1..Len(out)} = HeapPrices(Book, s, side)

\* a heap of three levels whose list is not in best-first order: depth 2
\* lists two of the levels, the default depth all three, depth 0 none
C16_Witness ==
    \E s \in Symbols, side \in Sides :
        /\ s \in DOMAIN levels
        /\ Len(levels[s][side]) = 3
        /\ ~Better(side, level_objs[levels[s][side][2]].price,
                         level_objs[levels[s][side][3]].price)
        /\ Len(Emitted(snapshot(Book, s, 2).value[1], side)) = 2
        /\ Len(Emitted(snapshot(Book, s, DefaultDepth).value[1], side)) = 3
        /\ Emitted(snapshot(Book, s, 0).value[1], side) = <<>>

\* --------------------------------------------------------------------- C17
\* the orders resting at (symbol, side, price): held by the order map and
\* found in the queue of a level of the heap
RestingAt(b, s, side, price) ==
    {o \in b.order_map :
        /\ b.orders[o].symbol = s
        /\ b.orders[o].side = side
        /\ b.orders[o].price = price
        /\ InBook(b, o)}

RECURSIVE SumResidual(_, _)
SumResidual(b, S) ==
    IF S = {} THEN 0
    ELSE LET o == CHOOSE x \in S : TRUE
         IN  b.orders[o].quantity + SumResidual(b, S \ {o})

\* C17: snapshot aggregation. The quantity of every level a snapshot lists
\* is the sum of the current residual quantities of all orders resting at
\* that symbol, side and price, whatever fills and cancels came before.
C17_SnapshotAggregation ==
    \A s \in Symbols, d \in Depths :
        LET v == snapshot(Book, s, d).value
        IN  v # None =>
                \A side \in Sides :
                    LET out == Emitted(v[1], side)
                    IN  \A i \in 1..Len(out) :
                            out[i].quantity
                              = SumResidual(Book, RestingAt(Book, s, side, out[i].price))

\* a listed level with two resting orders, one of them partially filled
C17_Witness ==
    /\ \E o \in DOMAIN traded : traded[o] > 0
    /\ \E s \in Symbols, side \in Sides :
          LET v == snapshot(Book, s, DefaultDepth).value
          IN  /\ v # None
              /\ \E i \in 1..Len(Emitted(v[1], side)) :
                     LET R == RestingAt(Book, s, side, Emitted(v[1], side)[i].price)
                     IN  /\ Cardinality(R) = 2
                         /\ \E o \in R : orders[o].quantity < orders[o].original_quantity

\* --------------------------------------------------------------------- C18
\* the best price among the orders resting on a side (the side is not empty)
BestResting(b, s, side) == BestFirst(side, LivePrices(b, s, side), 1)[1]

\* C18: snapshot spread and midpoint. They are present exactly when both
\* sides of the symbol hold at least one resting order and depth > 0; then
\* spread = best_ask - best_bid and midpoint = (best_ask + best_bid) / 2 for
\* the best prices among the resting orders.  So after the only orders of
\* one side were cancelled, both are absent.
C18_SpreadAndMidpoint ==
    \A s \in Symbols, d \in Depths :
        LET v == snapshot(Book, s, d).value
        IN  v # None =>
                LET both == /\ LivePrices(Book, s, BID) # {}
                            /\ LivePrices(Book, s, ASK) # {}
                            /\ d > 0
                IN  /\ v[1].spread # None <=> both
                    /\ v[1].midpoint # None <=> both
                    /\ both =>
                          LET best_bid == BestResting(Book, s, BID)
                              best_ask == BestResting(Book, s, ASK)
                          IN  /\ v[1].spread = Some(best_ask - best_bid)
                              /\ v[1].midpoint # None =>
                                    /\ v[1].midpoint[1].den > 0
                                    /\ 2 * v[1].midpoint[1].num
                                         = v[1].midpoint[1].den * (best_ask + best_bid)

\* --------------------------------------------------------------------- C19
\* the vwap field of a side
Vwap(snap, side) == IF side = BID THEN snap.bid_vwap ELSE snap.ask_vwap

\* C19: snapshot VWAP. For each side the vwap field is the exact quotient
\* (sum of price * quantity) / (sum of quantity) over the levels listed for
\* that side in the same snapshot, and it is absent exactly when no level is
\* listed for that side.
C19_SnapshotVwap ==
    \A s \in Symbols, d \in Depths :
        LET v == snapshot(Book, s, d).value
        IN  v # None =>
                \A side \in Sides :
                    LET out == Emitted(v[1], side)
                        vw == Vwap(v[1], side)
                    IN  /\ vw = None <=> out = <<>>
                        /\ vw # None =>
                              /\ vw[1].den > 0
                              /\ vw[1].num * total_q(out) = vw[1].den * total_pq(out)

\* --------------------------------------------------------------------- C20
\* An order of symbol s has been passed to match or enqueue_order (orders
\* holds exactly the orders passed to one of the two)
Seen(s) == \E o \in DOMAIN orders : orders[o].symbol = s

\* C20: snapshot of an unseen symbol. At every moment snapshot(s) returns
\* None exactly when no order of symbol s has been passed to match or
\* enqueue_order so far: snapshot, get_level, get_order and a failing cancel
\* do not make s seen, and a seen symbol keeps returning a Snapshot after all
\* its orders were filled or cancelled.
C20_UnseenSymbol ==
    \A s \in SymbolsMulti, d \in Depths :
        snapshot(Book, s, d).value = None <=> ~Seen(s)

\* get_level has been called for a symbol that is still unseen, and the
\* other symbol has been seen and holds no order any more: its snapshot has
\* two empty sides
C20_Witness ==
    \E s \in SymbolsMulti, s2 \in SymbolsMulti :
        /\ ~Seen(s)
        /\ s \in DOMAIN level_map
        /\ snapshot(Book, s, DefaultDepth).value = None
        /\ Seen(s2)
        /\ \A o \in order_map : orders[o].symbol # s2
        /\ snapshot(Book, s2, DefaultDepth).value
              = Some(Snapshot(<<>>, <<>>, None, None, None, None))

\* --------------------------------------------------------------------- C21
\* the top of the heap opposite to ord is a level with an empty queue
StaleTopFor(b, ord) ==
    /\ ord.symbol \in DOMAIN b.levels
    /\ b.levels[ord.symbol][other(ord.side)] # <<>>
    /\ b.level_objs[b.levels[ord.symbol][other(ord.side)][1]].orders = <<>>

\* C21: matching never fails on well-formed input. On every book reached by
\* match, enqueue_order and cancel calls that hand each order object to the
\* book at most once, match on a fresh order raises nothing and returns a
\* blotter, also when the opposing side holds levels emptied by cancel.
C21_MatchNeverFails ==
    \A ord \in NewOrders : MatchNew(ord).error = NoError

\* the incoming order crosses a level a cancel has emptied and trades with
\* the level behind it
C21_Witness ==
    /\ cancelled # {}
    /\ \E ord \in NewOrders :
          LET b == MatchNew(ord)
          IN  /\ StaleTopFor(Book, ord)
              /\ price_comparator(ord.side, ord.price,
                                  level_objs[levels[ord.symbol][other(ord.side)][1]].price)
              /\ b.error = NoError
              /\ b.trades # <<>>

\* --------------------------------------------------------------------- C22
\* Book.enqueue_order(ord) on the current book, for a freshly constructed ord
EnqueueNew(ord) == enqueue_order(WithNew(ord), NewId)

\* the orders of the opposite side, resting in b, whose price ord's price crosses
CrossedBy(b, ord) ==
    {o \in b.order_map :
        /\ b.orders[o].symbol = ord.symbol
        /\ b.orders[o].side = other(ord.side)
        /\ price_comparator(ord.side, ord.price, b.orders[o].price)
        /\ InBook(b, o)}

\* C22: enqueue_order inserts without matching. enqueue_order(O) puts O at
\* the tail of the queue of the level of O's symbol, side and price, records
\* it in the order map, makes no trade and changes no order's quantity, also
\* when O's price crosses resting orders of the opposite side.  Afterwards O
\* can be cancelled, and an opposite order that crosses O's price trades
\* (with O itself when O is the only order resting on its side).
C22_EnqueueWithoutMatching ==
    \A ord \in NewOrders :
        LET e == EnqueueNew(ord)
            c == cancel(e, NewId)
        IN  /\ e.error = NoError
            /\ e.trades = <<>>
            /\ RestsLast(e, NewId)
            /\ QueuesHolding(e, NewId)
                  = {get_level(e, ord.symbol, ord.side, ord.price)}
            /\ e.orders = WithNew(ord).orders
            /\ e.order_map = order_map \cup {NewId}
            /\ c.error = NoError
            /\ get_order(c.order_map, NewId) = 0
            /\ QueuesHolding(c, NewId) = {}
            /\ \A ord2 \in NewOrders :
                   (ord2.side = other(ord.side)
                    /\ price_comparator(ord2.side, ord2.price, ord.price)) =>
                       LET m == MatchOn(e, ord2)
                       IN  /\ m.error = NoError
                           /\ m.trades # <<>>
                           /\ (\A o \in order_map : orders[o].side # ord.side) =>
                                  m.trades[1].standing_order_id = NewId

\* an order is enqueued behind an older order of its level although its
\* price crosses an order resting on the opposite side
C22_Witness ==
    \E ord \in NewOrders :
        LET e == EnqueueNew(ord)
        IN  /\ CrossedBy(Book, ord) # {}
            /\ e.trades = <<>>
            /\ Len(e.level_objs[get_level(e, ord.symbol, ord.side, ord.price)].orders) >= 2

\* --------------------------------------------------------------------- C23
\* Prices are reflected around Axis / 2: p -> Axis - p
Axis == 4

\* The orders a caller can construct at three prices, of either quantity
NewOrdersSym ==
    {Order(side, symbol, price, quantity) :
        side \in Sides, symbol \in Symbols, price \in PricesWide, quantity \in Quantities}

MirrorPrice(p) == Axis - p

MirrorOrder(ord) == [ord EXCEPT !.side = other(ord.side), !.price = MirrorPrice(ord.price)]

MirrorLevel(lvl) == [lvl EXCEPT !.side = other(lvl.side), !.price = MirrorPrice(lvl.price)]

MirrorMap(m) == [p \in {MirrorPrice(q) : q \in DOMAIN m} |-> m[MirrorPrice(p)]]

MirrorTrade(t) == [t EXCEPT !.fill_price = MirrorPrice(t.fill_price)]

\* The book the mirrored calls on the mirrored orders build, object by object
MirrorBook(b) ==
    [orders |-> [i \in DOMAIN b.orders |-> MirrorOrder(b.orders[i])],
     level_objs |-> [l \in DOMAIN b.level_objs |-> MirrorLevel(b.level_objs[l])],
     levels |-> [s \in DOMAIN b.levels |->
                   [bid |-> b.levels[s].ask, ask |-> b.levels[s].bid]],
     level_map |-> [s \in DOMAIN b.level_map |->
                      [bid |-> MirrorMap(b.level_map[s].ask),
                       ask |-> MirrorMap(b.level_map[s].bid)]],
     order_map |-> b.order_map,
     trades |-> [i \in DOMAIN b.trades |-> MirrorTrade(b.trades[i])],
     error |-> b.error]

\* C23: side symmetry. Swapping BID and ASK on every order and reflecting
\* every price (p -> Axis - p) commutes with every call: on the mirrored
\* book, the mirrored call makes the same trades in the same order, with the
\* same counterpart orders and fill quantities and with reflected fill
\* prices, raises the same error, and leaves the mirrored book.  The empty
\* book is its own mirror image, so the same holds for sequences of calls.
C23_SideSymmetry ==
    /\ \A ord \in NewOrdersSym :
           LET b0 == WithNew(ord)
               m0 == MirrorBook(b0)
           IN  /\ match(m0, NewId) = MirrorBook(match(b0, NewId))
               /\ enqueue_order(m0, NewId) = MirrorBook(enqueue_order(b0, NewId))
    /\ \A o \in 1..Len(orders) :
           cancel(MirrorBook(Book), o) = MirrorBook(cancel(Book, o))

\* an incoming order sweeps two levels at two prices
C23_Witness ==
    \E ord \in NewOrdersSym :
        LET b == MatchNew(ord)
        IN  /\ Len(b.trades) >= 2
            /\ b.trades[1].fill_price # b.trades[2].fill_price
            /\ MirrorTrade(b.trades[1]) # b.trades[1]

\* --------------------------------------------------------------------- C24
\* The incoming orders of the blotters looked at: quantities up to
\* MaxIncoming, so that one blotter can hold three trades
MaxIncoming == 3

BlotterOrders ==
    {Order(side, symbol, price, quantity) :
        side \in Sides, symbol \in Symbols, price \in Prices, quantity \in 1..MaxIncoming}

Abs(x) == IF x < 0 THEN -x ELSE x

\* h hundredths is a hundredth nearest to n / d
Rounds(h, n, d) == 2 * Abs(h * d - 100 * n) <= d

\* C24 as stated: total_cost equals the sum over the trades of fill_quantity
\* * fill_price, average_price equals the sum of the fill prices divided by
\* the number of trades, and both are 0 when the blotter has no trades.
C24_ExactStatistics ==
    \A ord \in BlotterOrders :
        LET bl == TradeBlotter(MatchNew(ord), NewId)
            ts == bl.trades
        IN  IF ts = <<>> THEN bl.total_cost = 0 /\ bl.average_price = 0
            ELSE /\ bl.total_cost * PriceScale = 100 * SumCost(ts)
                 /\ bl.average_price * PriceScale * Len(ts) = 100 * SumPrice(ts)

\* C24, amended: total_cost is the sum over the trades of fill_quantity *
\* fill_price rounded to 2 decimal places, average_price is the unweighted
\* mean of the fill prices (their sum divided by the number of trades)
\* rounded to 2 decimal places, and both are 0 when the blotter has no trades.
C24_RoundedStatistics ==
    \A ord \in BlotterOrders :
        LET bl == TradeBlotter(MatchNew(ord), NewId)
            ts == bl.trades
        IN  IF ts = <<>> THEN bl.total_cost = 0 /\ bl.average_price = 0
            ELSE /\ Rounds(bl.total_cost, SumCost(ts), PriceScale)
                 /\ Rounds(bl.average_price, SumPrice(ts), PriceScale * Len(ts))

\* a blotter of trades at two prices and of two quantities, whose total cost
\* the rounding changes; another incoming order gets a blotter without trades
C24_Witness ==
    /\ \E ord \in BlotterOrders :
          LET bl == TradeBlotter(MatchNew(ord), NewId)
          IN  /\ Len(bl.trades) >= 2
              /\ bl.trades[1].fill_price # bl.trades[2].fill_price
              /\ bl.trades[1].fill_quantity # bl.trades[2].fill_quantity
              /\ bl.total_cost * PriceScale # 100 * SumCost(bl.trades)
    /\ \E ord \in BlotterOrders : MatchNew(ord).trades = <<>>

\* --------------------------------------------------------------------- C25
\* the ids found in the queues of the book's levels
Queued(b) == UNION {SeqToSet(b.level_objs[l].orders) : l \in DOMAIN b.level_objs}

\* C25: order map and queues agree. After any sequence of match,
\* enqueue_order and cancel calls the ids in the order map are exactly the
\* ids found in level queues, and each of them sits once in exactly one
\* queue: the queue of the level the map gives for its own symbol, side and
\* price, which is a level of the heap.
C25_OrderMapMatchesQueues ==
    /\ order_map = Queued(Book)
    /\ \A o \in order_map :
           LET lv == get_level(Book, orders[o].symbol, orders[o].side, orders[o].price)
           IN  /\ lv # 0
               /\ QueuesHolding(Book, o) = {lv}
               /\ Cardinality({i \in 1..Len(level_objs[lv].orders) :
                                  level_objs[lv].orders[i] = o}) = 1
               /\ lv \in SeqToSet(levels[orders[o].symbol][orders[o].side])

\* after a fill and a cancel, a partially filled order still rests
C25_Witness ==
    /\ cancelled # {}
    /\ \E o \in order_map : orders[o].quantity < orders[o].original_quantity

\* --------------------------------------------------------------------- C26
\* the levels the level map of a symbol and side refers to
MapLevels(b, s, side) ==
    IF s \in DOMAIN b.level_map
    THEN {b.level_map[s][side][p] : p \in DOMAIN b.level_map[s][side]} ELSE {}

\* the levels the heap of a symbol and side holds
HeapLevels(b, s, side) ==
    IF s \in DOMAIN b.levels THEN SeqToSet(b.levels[s][side]) ELSE {}

\* C26: map holds only non-empty levels. For each symbol and side the levels
\* reachable via the level map (get_level) are exactly the levels of the
\* heap whose queue is non-empty; once a cancel has emptied a level's queue
\* the level has no map reference and get_level for its price returns None.
C26_MapOnlyNonEmpty ==
    /\ \A s \in Symbols, side \in Sides :
           MapLevels(Book, s, side)
             = {l \in HeapLevels(Book, s, side) : level_objs[l].orders # <<>>}
    /\ \A s \in Symbols, side \in Sides, price \in Prices :
           LET lv == get_level(Book, s, side, price)
           IN  lv # 0 => level_objs[lv].orders # <<>>

\* --------------------------------------------------------------------- C27
\* C27: no zero-quantity residents. After any sequence of match,
\* enqueue_order and cancel calls no order with quantity 0 is in a level's
\* queue or in the order map: get_order returns None for a filled order.
C27_NoZeroQuantityResident ==
    /\ \A o \in Queued(Book) : orders[o].quantity > 0
    /\ \A o \in order_map : orders[o].quantity > 0
    /\ \A o \in DOMAIN orders : orders[o].quantity = 0 => get_order(order_map, o) = 0

\* a filled order, and a partially filled one still resting
C27_Witness ==
    /\ \E o \in DOMAIN orders : orders[o].quantity = 0
    /\ \E o \in order_map : orders[o].quantity < orders[o].original_quantity

\* --------------------------------------------------------------------- C28
\* C28: unique level per price. No heap ever holds two PriceLevels of the
\* same symbol, side and price; when a cancel has emptied a level and an
\* order is enqueued at its price afterwards, no second level for that price
\* is pushed onto the heap.
C28_UniqueLevelPerPrice ==
    /\ \A s \in DOMAIN levels, side \in Sides :
           \A i, j \in 1..Len(levels[s][side]) :
               i # j => level_objs[levels[s][side][i]].price
                          # level_objs[levels[s][side][j]].price
    /\ \A ord \in NewOrders :
           LET lv == get_level(Book, ord.symbol, ord.side, ord.price)
               e == EnqueueNew(ord)
           IN  (lv # 0 /\ level_objs[lv].orders = <<>>) =>
                  /\ e.levels = Touch(levels, ord.symbol)
                  /\ e.level_objs[lv].orders = <<NewId>>

\* a cancel has emptied a level, another level of that side holds an order,
\* and an order can be enqueued at the emptied level's price
C28_Witness ==
    /\ cancelled # {}
    /\ \E ord \in NewOrders :
          LET lv == get_level(Book, ord.symbol, ord.side, ord.price)
          IN  /\ lv # 0
              /\ level_objs[lv].orders = <<>>
              /\ Len(levels[ord.symbol][ord.side]) = 2
              /\ Len(EnqueueNew(ord).levels[ord.symbol][ord.side]) = 2

\* --------------------------------------------------------------------- C29
\* C29: heap and map stay in step. After any sequence of match,
\* enqueue_order and cancel calls, for each symbol and side the heap and the
\* level map hold exactly the same PriceLevel objects, each once in the heap
\* and each the map entry of its own price: enqueue adds a new level to
\* both, a drain during matching removes it from both, cancel from neither.
C29_HeapAndMapInStep ==
    \A s \in DOMAIN levels \cup DOMAIN level_map, side \in Sides :
        /\ HeapLevels(Book, s, side) = MapLevels(Book, s, side)
        /\ s \in DOMAIN levels =>
               Cardinality(HeapLevels(Book, s, side)) = Len(levels[s][side])
        /\ s \in DOMAIN level_map =>
               \A p \in DOMAIN level_map[s][side] :
                   /\ level_objs[level_map[s][side][p]].price = p
                   /\ level_objs[level_map[s][side][p]].side = side

\* a level was drained by a match, another was emptied by a cancel and is
\* still in heap and map, a third holds an order
C29_Witness ==
    /\ \E o \in DOMAIN orders :
          /\ orders[o].quantity = 0
          /\ get_level(Book, orders[o].symbol, orders[o].side, orders[o].price) = 0
    /\ \E s \in Symbols, side \in Sides :
          \E l \in HeapLevels(Book, s, side) : level_objs[l].orders = <<>>
    /\ order_map # {}

\* --------------------------------------------------------------------- C30
\* C30: a stale top is cleaned lazily. Whenever match examines the top level
\* of the opposing heap and that level's queue is empty, it pops the level
\* from the heap and goes on with the next level, whether or not the stale
\* level's price crosses the incoming order's price: a level that is the
\* stale top of the opposing heap when match is called on a fresh order is
\* no longer in that heap when match returns.
C30_StaleTopPopped ==
    \A ord \in NewOrders :
        StaleTopFor(Book, ord) =>
            LET lv == levels[ord.symbol][other(ord.side)][1]
                b == MatchNew(ord)
            IN  b.error = NoError
                  => lv \notin HeapLevels(b, ord.symbol, other(ord.side))

\* --------------------------------------------------------------------- C31
\* the orders with quantity left that rest in b on the side opposite to ord
Opposite(b, ord) ==
    {o \in b.order_map :
        /\ b.orders[o].symbol = ord.symbol
        /\ b.orders[o].side = other(ord.side)
        /\ b.orders[o].quantity > 0
        /\ InBook(b, o)}

\* some level of the heap opposite to ord has an empty queue
StaleOpposite(b, ord) ==
    \E l \in HeapLevels(b, ord.symbol, other(ord.side)) : b.level_objs[l].orders = <<>>

\* C31: match exhausts crossable liquidity. When match returns and the
\* incoming order has quantity left, no order with quantity left that rests
\* on the opposite side of its symbol has a price the incoming price
\* crosses, on every book reached by match, enqueue_order and cancel, with
\* or without levels a cancel has emptied.
C31_ExhaustsCrossable ==
    \A ord \in NewOrdersSym :
        LET b == MatchNew(ord)
        IN  b.orders[NewId].quantity > 0 =>
                \A o \in Opposite(b, ord) : ~Crosses(ord, b.orders[o])

\* an incoming order trades through a heap that holds an emptied level, is
\* left with quantity, and an order it does not cross still rests opposite
C31_Witness ==
    \E ord \in NewOrdersSym :
        LET b == MatchNew(ord)
        IN  /\ StaleOpposite(Book, ord)
            /\ b.trades # <<>>
            /\ b.orders[NewId].quantity > 0
            /\ Opposite(b, ord) # {}

\* --------------------------------------------------------------------- C32
\* the levels of the heap opposite to ord in b0 whose queue is not empty and
\* whose orders all have quantity 0 in b
Drained(b0, b, ord) ==
    {l \in HeapLevels(b0, ord.symbol, other(ord.side)) :
        /\ b0.level_objs[l].orders # <<>>
        /\ \A o \in SeqToSet(b0.level_objs[l].orders) : b.orders[o].quantity = 0}

\* C32: drain eviction. When a match fills every order of an opposing
\* level, the level is gone from the heap and from the level map when match
\* returns: get_level for its price returns None; and the levels removed are
\* the drained ones: a level that still holds an order stays in the heap,
\* in the map under its price, with the orders the match did not fill.
C32_DrainEviction ==
    \A ord \in NewOrdersSym :
        LET b == MatchNew(ord)
            d == other(ord.side)
        IN  /\ b.error = NoError
            /\ \A l \in Drained(Book, b, ord) :
                   /\ l \notin HeapLevels(b, ord.symbol, d)
                   /\ l \notin MapLevels(b, ord.symbol, d)
                   /\ get_level(b, ord.symbol, d, level_objs[l].price) = 0
            /\ \A l \in HeapLevels(Book, ord.symbol, d) \ Drained(Book, b, ord) :
                   level_objs[l].orders # <<>> =>
                      /\ l \in HeapLevels(b, ord.symbol, d)
                      /\ get_level(b, ord.symbol, d, level_objs[l].price) = l
                      /\ b.level_objs[l].orders # <<>>
                      /\ SeqToSet(b.level_objs[l].orders) \subseteq SeqToSet(level_objs[l].orders)

\* a match drains the top level of a heap of three levels, one of them
\* emptied by a cancel, and a level with an order is left
C32_Witness ==
    \E ord \in NewOrdersSym :
        LET b == MatchNew(ord)
            d == other(ord.side)
        IN  /\ Drained(Book, b, ord) # {}
            /\ Len(levels[ord.symbol][d]) = 3
            /\ StaleOpposite(Book, ord)
            /\ Opposite(b, ord) # {}

\* --------------------------------------------------------------------- C33
\* in b the first level of every non-empty heap has the best price of the heap
TopIsBest(b) ==
    \A s \in DOMAIN b.levels, side \in Sides :
        \A i \in 1..Len(b.levels[s][side]) :
            ~Better(side, b.level_objs[b.levels[s][side][i]].price,
                          b.level_objs[b.levels[s][side][1]].price)

\* C33: the heap top is the best price. After any sequence of match,
\* enqueue_order and cancel calls the first element of each non-empty heap is
\* the level with the best price of all levels in that heap: the highest for
\* bids, the lowest for asks.
C33_HeapTopIsBest ==
    /\ TopIsBest(Book)
    /\ \A ord \in NewOrdersSym :
           /\ TopIsBest(MatchNew(ord))
           /\ TopIsBest(EnqueueNew(ord))

\* the level pushed last is the top of a heap of three levels, and a match
\* pops it and leaves two levels
C33_Witness ==
    \E ord \in NewOrdersWide :
        LET b == MatchNew(ord)
            d == other(ord.side)
        IN  /\ ord.symbol \in DOMAIN levels
            /\ Len(levels[ord.symbol][d]) = 3
            /\ level_objs[levels[ord.symbol][d][1]].orders = <<3>>
            /\ Len(b.levels[ord.symbol][d]) = 2

\* --------------------------------------------------------------------- C34
\* a step keeps every order the caller holds, with its fields other than
\* quantity, and does not raise its quantity
ResidualsStep ==
    \A o \in DOMAIN orders :
        /\ o \in DOMAIN orders'
        /\ orders'[o].quantity <= orders[o].quantity
        /\ orders'[o].original_quantity = orders[o].original_quantity
        /\ orders'[o].symbol = orders[o].symbol
        /\ orders'[o].side = orders[o].side
        /\ orders'[o].price = orders[o].price

\* C34: monotonic residuals. Over any sequence of operations the quantity
\* of every order never increases and always satisfies
\* 0 <= quantity <= original_quantity, and original_quantity and id never
\* change.
C34_MonotonicResiduals ==
    /\ [](\A o \in DOMAIN orders :
              0 <= orders[o].quantity /\ orders[o].quantity <= orders[o].original_quantity)
    /\ [][ResidualsStep]_vars

\* one order is filled, another is partly filled, and a third was cancelled
\* with its quantity untouched
C34_Witness ==
    /\ \E o \in DOMAIN orders : orders[o].quantity = 0
    /\ \E o \in DOMAIN orders :
          0 < orders[o].quantity /\ orders[o].quantity < orders[o].original_quantity
    /\ \E o \in cancelled : orders[o].quantity = orders[o].original_quantity

\* --------------------------------------------------------------------- C35
\* C35: cancel frame. A successful cancel(o) removes o from the order map
\* and from the queue of its level and changes nothing else: the heap of
\* every symbol and side holds the same levels at the same positions, the
\* level map is the same, and every other order keeps its quantity, its
\* level and its place among the orders of its queue.
C35_CancelFrame ==
    \A o \in order_map :
        LET b == cancel(Book, o)
            own == get_level(Book, orders[o].symbol, orders[o].side, orders[o].price)
        IN  /\ b.error = NoError
            /\ b.trades = <<>>
            /\ b.order_map = order_map \ {o}
            /\ b.levels = levels
            /\ b.level_map = level_map
            /\ b.orders = orders
            /\ DOMAIN b.level_objs = DOMAIN level_objs
            /\ \A l \in DOMAIN level_objs :
                   /\ b.level_objs[l].price = level_objs[l].price
                   /\ b.level_objs[l].side = level_objs[l].side
                   /\ b.level_objs[l].orders =
                         IF l = own THEN Remove(level_objs[l].orders, o)
                         ELSE level_objs[l].orders
            /\ o \in SeqToSet(level_objs[own].orders)

\* the order cancelled is the only one of its level, which stays in its
\* heap, while the other symbol's book holds an order
C35_Witness ==
    \E o \in order_map, o2 \in order_map :
        LET own == get_level(Book, orders[o].symbol, orders[o].side, orders[o].price)
            b == cancel(Book, o)
        IN  /\ orders[o2].symbol # orders[o].symbol
            /\ level_objs[own].orders = <<o>>
            /\ b.level_objs[own].orders = <<>>
            /\ own \in HeapLevels(b, orders[o].symbol, orders[o].side)

\* --------------------------------------------------------------------- C36
\* the book b0 after a cancel of o that fails, ready for the next call
AfterFailedCancel(b0, o) == [cancel(b0, o) EXCEPT !.error = NoError]

\* cancel(o) on b0 fails with KeyError and leaves b0 as it was, for the
\* next match as well
FailedCancelKeeps(b0, o, next) ==
    LET b == cancel(b0, o)
    IN  /\ b.error = KeyError(o)
        /\ b.order_map = b0.order_map
        /\ b.level_map = b0.level_map
        /\ b.levels = b0.levels
        /\ b.level_objs = b0.level_objs
        /\ b.orders = b0.orders
        /\ b.trades = b0.trades
        /\ \A ord \in next :
               MatchOn(AfterFailedCancel(b0, o), ord) = MatchOn(b0, ord)

Named(ts) == [k \in 1..Len(ts) |-> ts[k].standing_order_id]

\* in the book b, S is the head of the queue of the level of its price
HeadOfLevel(b, S) ==
    LET lv == get_level(b, b.orders[S].symbol, b.orders[S].side, b.orders[S].price)
    IN  /\ lv # 0
        /\ b.level_objs[lv].orders # <<>>
        /\ b.level_objs[lv].orders[1] = S

\* an aggressor that crosses the price of S trades on b with S before it
\* trades with any other order of the level of S
FirstOfLevel(b, S, ord) ==
    LET ns == Named(MatchOn(b, ord).trades)
    IN  /\ \E j \in 1..Len(ns) : ns[j] = S
        /\ \A i, j \in 1..Len(ns) :
               (ns[j] = S /\ ns[i] # S /\ SameLevel(b.orders[ns[i]], b.orders[S])) => j < i

\* C37: a partly filled resting order keeps its time priority. A resting
\* order that a match fills only in part stays in the order map and at the
\* head of the queue of its level, with its quantity reduced by the fill,
\* and the next aggressor that crosses its level trades with it before any
\* other order of that level.
C37_PartialFillKeepsPriority ==
    \A ord \in NewOrders :
        LET b == MatchNew(ord)
            ts == b.trades
        IN  \A k \in 1..Len(ts) :
                LET S == ts[k].standing_order_id
                IN  b.orders[S].quantity > 0 =>
                      /\ S \in b.order_map
                      /\ HeadOfLevel(b, S)
                      /\ b.orders[S].quantity = orders[S].quantity - ts[k].fill_quantity
                      /\ \A ord2 \in NewOrders :
                             (ord2.symbol = ord.symbol /\ ord2.side = ord.side
                              /\ Crosses(ord2, orders[S]))
                                => FirstOfLevel(b, S, ord2)

\* a match fills in part the older of two orders of one level, and the next
\* aggressor trades with it and then with the younger one
C37_Witness ==
    \E ord \in NewOrders, ord2 \in NewOrders :
        LET b == MatchNew(ord)
            ts2 == MatchOn(b, ord2).trades
        IN  /\ Len(b.trades) = 1
            /\ b.orders[b.trades[1].standing_order_id].quantity > 0
            /\ Len(ts2) = 2
            /\ ts2[1].standing_order_id = b.trades[1].standing_order_id
            /\ SameLevel(orders[ts2[1].standing_order_id], orders[ts2[2].standing_order_id])

\* --------------------------------------------------------------------- C38
\* C38: shape of a blotter. In every blotter match returns, every trade has
\* fill_quantity >= 1, no resting order is named by more than one trade,
\* every trade but possibly the last fills its resting order completely,
\* a resting order filled completely is gone from the book, and if the last
\* trade leaves its resting order with quantity then the incoming order's
\* quantity is 0.
C38_BlotterShape ==
    \A ord \in BlotterOrders :
        LET b == MatchNew(ord)
            ts == b.trades
            n == Len(ts)
        IN  /\ \A k \in 1..n : ts[k].fill_quantity >= 1
            /\ \A i, j \in 1..n :
                   i # j => ts[i].standing_order_id # ts[j].standing_order_id
            /\ \A k \in 1..n :
                   LET S == ts[k].standing_order_id
                   IN  /\ k < n => b.orders[S].quantity = 0
                       /\ b.orders[S].quantity = 0 =>
                              S \notin b.order_map /\ QueuesHolding(b, S) = {}
            /\ (n > 0 /\ b.orders[ts[n].standing_order_id].quantity > 0)
                   => b.orders[NewId].quantity = 0

\* a blotter of three trades whose last trade leaves its resting order with
\* quantity, and a blotter of two trades that fill their resting orders
C38_Witness ==
    /\ \E ord \in BlotterOrders :
          LET b == MatchNew(ord)
          IN  /\ Len(b.trades) = 3
              /\ b.orders[b.trades[3].standing_order_id].quantity > 0
    /\ \E ord \in BlotterOrders :
          LET b == MatchNew(ord)
          IN  /\ Len(b.trades) = 2
              /\ b.orders[b.trades[2].standing_order_id].quantity = 0

\* --------------------------------------------------------------------- C39
\* fresh orders over three prices that can sweep three levels
SweepOrders ==
    {Order(side, symbol, price, quantity) :
        side \in Sides, symbol \in Symbols, price \in PricesWide,
        quantity \in 1..MaxIncoming}

\* Book._match, lines 108-111: the outer loop is over, by its condition, by
\* the break, or by an exception
loop_stops(b, I) ==
    LET inc == b.orders[I]
        heap == b.levels[inc.symbol][other(inc.side)]
    IN  \/ b.error # NoError
        \/ inc.quantity = 0
        \/ heap = <<>>
        \/ ~price_comparator(inc.side, inc.price, b.level_objs[heap[1]].price)

\* Book._match, lines 112-132: one pass of the outer loop on the top level
loop_pass(b, I) ==
    LET lv == b.levels[b.orders[I].symbol][other(b.orders[I].side)][1]
        b1 == match_level(b, I, lv)
    IN  IF b1.error = NoError /\ b1.level_objs[lv].orders = <<>>
        THEN flush_level(b1, I, lv)
        ELSE b1

\* the book after at most n passes of the outer loop
RECURSIVE Passes(_, _, _)
Passes(b, I, n) ==
    IF n = 0 \/ loop_stops(b, I) THEN b ELSE Passes(loop_pass(b, I), I, n - 1)

OpposingHeap(b, I) == b.levels[b.orders[I].symbol][other(b.orders[I].side)]

\* C39: match terminates. On every book reached by match, enqueue_order and
\* cancel, match(I) finishes: the outer loop is over after at most as many
\* passes as the opposing heap holds levels; the trades it emits are at most
\* as many as the orders resting on the opposite side of I.symbol when the
\* call started; and every pass of the outer loop stops the loop, brings
\* I.quantity to 0, or removes one level from the opposing heap.
C39_MatchTerminates ==
    \A ord \in SweepOrders :
        LET b0 == [WithNew(ord) EXCEPT !.levels = Touch(@, ord.symbol)]
            h == Len(OpposingHeap(b0, NewId))
            e == Passes(b0, NewId, h)
        IN  /\ loop_stops(e, NewId)
            /\ e = match_loop(b0, NewId)
            /\ e.error = NoError
            /\ Len(MatchNew(ord).trades) <= Cardinality(Opposite(Book, ord))
            /\ \A k \in 0..h :
                   LET x == Passes(b0, NewId, k)
                   IN  ~loop_stops(x, NewId) =>
                          LET y == loop_pass(x, NewId)
                          IN  \/ y.orders[NewId].quantity = 0
                              \/ Len(OpposingHeap(y, NewId))
                                    = Len(OpposingHeap(x, NewId)) - 1

\* an order sweeps a heap of three levels in three passes, one of them over
\* a level a cancel has emptied, and is left with quantity
C39_Witness ==
    \E ord \in SweepOrders :
        LET b0 == [WithNew(ord) EXCEPT !.levels = Touch(@, ord.symbol)]
            e == Passes(b0, NewId, 3)
        IN  /\ Len(OpposingHeap(b0, NewId)) = 3
            /\ StaleOpposite(Book, ord)
            /\ ~loop_stops(Passes(b0, NewId, 2), NewId)
            /\ OpposingHeap(e, NewId) = <<>>
            /\ Len(e.trades) = 2
            /\ e.orders[NewId].quantity > 0

====
